---- MODULE Spec2Model ----
(***************************************************************************)
(* Model of three units of material-components-web:                        *)
(*   - MDCTextFieldCharacterCounterFoundation.setCounterValue              *)
(*     (packages/mdc-textfield/character-counter/foundation.ts)            *)
(*   - the theme validator (packages/mdc-theme/_validate.scss)             *)
(*   - the custom-property helpers (custom-properties Sass module)         *)
(* Strings the code builds are sequences of one-character strings, so that *)
(* formatting, suffix tests and var() composition are computed, not        *)
(* assumed.                                                                *)
(***************************************************************************)
EXTENDS Integers, Sequences, FiniteSets

VARIABLES
  requests,      \* counter: the (currentLength, maxLength) pairs passed so far
  adapterCalls,  \* counter: the adapter invocations made so far, in order
  validation,    \* validator: the last validation call, arguments and outcome
  config,        \* custom properties: the global $_config map
  frames,        \* custom properties: the open configure() blocks, innermost last
  props,         \* custom properties: the two records the functions are called with
  out            \* custom properties: the last function call and its result

vars == <<requests, adapterCalls, validation, config, frames, props, out>>

\* Sass null as a map value
Null == "null"

(***************************************************************************)
(* Bounds of the model                                                     *)
(***************************************************************************)
MaxLength == 11
MaxCalls == 2
MaxKeys == 3
MaxNesting == 2
MaxDepth == 2

(***************************************************************************)
(* Character counter                                                       *)
(***************************************************************************)
DigitChar(d) ==
  CASE d = 0 -> "0" [] d = 1 -> "1" [] d = 2 -> "2" [] d = 3 -> "3"
    [] d = 4 -> "4" [] d = 5 -> "5" [] d = 6 -> "6" [] d = 7 -> "7"
    [] d = 8 -> "8" [] d = 9 -> "9"

\* Number-to-string conversion of a template literal, for a non-negative integer
RECURSIVE NumberToString(_)
NumberToString(n) ==
  IF n < 10 THEN <<DigitChar(n)>>
  ELSE NumberToString(n \div 10) \o <<DigitChar(n % 10)>>

\* Variant: the larger of the two
MathMax(a, b) == IF a < b THEN b ELSE a

\* Math.min(currentLength, maxLength)
MathMin(a, b) == IF b < a THEN b ELSE a

\* Variant: the separator without its spaces
FormatContentNoSpaces(currentLength, maxLength) ==
  NumberToString(currentLength) \o <<"/">> \o NumberToString(maxLength)

\* `${currentLength} / ${maxLength}`
FormatContent(currentLength, maxLength) ==
  NumberToString(currentLength) \o <<" ", "/", " ">> \o NumberToString(maxLength)

\* setCounterValue(currentLength, maxLength)
SetCounterValue(currentLength, maxLength) ==
  LET clamped == MathMin(currentLength, maxLength) IN
  /\ Len(requests) < MaxCalls
  /\ requests' = Append(requests, <<currentLength, maxLength>>)
  /\ adapterCalls' = adapterCalls \o
       << [fn |-> "setContent", args |-> <<FormatContent(clamped, maxLength)>>],
          [fn |-> "setCounterValue", args |-> <<clamped, maxLength>>] >>
  /\ UNCHANGED <<validation, config, frames, props, out>>

\* The lengths a call is given: zero, one, and those around the step from one
\* decimal digit to two
Lengths == {0, 1} \cup (9..MaxLength)


(***************************************************************************)
(* Theme validation                                                        *)
(***************************************************************************)
\* Token names the model draws theme keys from
TokenColor == <<"c", "o", "l", "o", "r">>
TokenLabelType == <<"l", "a", "b", "e", "l", "-", "t", "y", "p", "e">>
TokenType == <<"t", "y", "p", "e">>
TokenTypeX == <<"-", "t", "y", "p", "e", "-", "x">>
Tokens == {TokenColor, TokenLabelType, TokenType, TokenTypeX}

\* Values a theme maps a token to
ThemeValues == {Null, "red"}

\* A Sass map is a sequence of key/value entries with distinct keys
\* map.keys($map)
MapKeys(m) == [i \in 1..Len(m) |-> m[i].key]

\* map.get($map, $key): the value, or null when the key is absent
MapGet(m, k) ==
  IF \E i \in 1..Len(m) : m[i].key = k
  THEN (CHOOSE e \in {m[i] : i \in 1..Len(m)} : e.key = k).value
  ELSE Null

\* list.index($list, $value): the 1-based position; Sass null is 0 here
ListIndex(l, v) ==
  IF \E i \in 1..Len(l) : l[i] = v
  THEN CHOOSE i \in 1..Len(l) : l[i] = v /\ \A j \in 1..(i - 1) : l[j] # v
  ELSE 0

\* string-ext.has-suffix($string, $suffix)
HasSuffix(string, suffix) ==
  /\ Len(string) >= Len(suffix)
  /\ SubSeq(string, Len(string) - Len(suffix) + 1, Len(string)) = suffix

\* $ignore-suffix: ('-type')
IgnoreSuffix == << <<"-", "t", "y", "p", "e">> >>

\* The @each over $theme that collects the unsupported tokens
RECURSIVE UnsupportedTokens(_, _)
UnsupportedTokens(validTokens, theme) ==
  IF theme = <<>> THEN <<>>
  ELSE LET rest == UnsupportedTokens(validTokens, SubSeq(theme, 1, Len(theme) - 1))
           token == theme[Len(theme)].key
       IN IF ListIndex(validTokens, token) = 0
          THEN Append(rest, token) ELSE rest

\* Variant: the null test inverted
IsMissingInverted(theme, token) ==
  /\ MapGet(theme, token) # Null
  /\ \A i \in 1..Len(IgnoreSuffix) : ~HasSuffix(token, IgnoreSuffix[i])

\* Variant: a key counts as present whatever its value
IsMissingIgnoringValue(theme, token) ==
  /\ \A i \in 1..Len(theme) : theme[i].key # token
  /\ \A i \in 1..Len(IgnoreSuffix) : ~HasSuffix(token, IgnoreSuffix[i])

\* $missing after the inner @each over $ignore-suffix
IsMissing(theme, token) ==
  /\ MapGet(theme, token) = Null
  /\ \A i \in 1..Len(IgnoreSuffix) : ~HasSuffix(token, IgnoreSuffix[i])

\* The @each over $valid-tokens that collects the missing tokens
RECURSIVE MissingTokens(_, _)
MissingTokens(validTokens, theme) ==
  IF validTokens = <<>> THEN <<>>
  ELSE LET rest == MissingTokens(SubSeq(validTokens, 1, Len(validTokens) - 1), theme)
           token == validTokens[Len(validTokens)]
       IN IF IsMissing(theme, token) THEN Append(rest, token) ELSE rest

\* Variant: the two @error checks in the other order
ValidateThemeTokensMissingFirst(validTokens, theme, requireAll) ==
  LET unsupportedTokens == UnsupportedTokens(validTokens, theme)
      missingTokens == IF requireAll THEN MissingTokens(validTokens, theme) ELSE <<>>
  IN IF Len(missingTokens) > 0
     THEN [error |-> "missing", tokens |-> missingTokens]
     ELSE IF Len(unsupportedTokens) > 0
     THEN [error |-> "invalid", tokens |-> unsupportedTokens]
     ELSE [error |-> "none", tokens |-> <<>>, value |-> theme]

\* _validate-theme-tokens($valid-tokens, $theme, $require-all)
ValidateThemeTokens(validTokens, theme, requireAll) ==
  LET unsupportedTokens == UnsupportedTokens(validTokens, theme)
      missingTokens == IF requireAll THEN MissingTokens(validTokens, theme) ELSE <<>>
  IN IF Len(unsupportedTokens) > 0
     THEN [error |-> "invalid", tokens |-> unsupportedTokens]
     ELSE IF Len(missingTokens) > 0
     THEN [error |-> "missing", tokens |-> missingTokens]
     ELSE [error |-> "none", tokens |-> <<>>, value |-> theme]

\* Key lists without repetition, up to MaxKeys long
KeyLists ==
  {l \in UNION {[1..n -> Tokens] : n \in 0..MaxKeys} :
     \A i, j \in 1..Len(l) : l[i] = l[j] => i = j}

\* Reference themes: complete maps, every token with a value
ReferenceThemes ==
  {[i \in 1..Len(l) |-> [key |-> l[i], value |-> "red"]] : l \in KeyLists}

\* Theme maps under validation: any value, null included
ThemeMaps ==
  UNION {{[i \in 1..Len(l) |-> [key |-> l[i], value |-> v[i]]] :
            v \in [1..Len(l) -> ThemeValues]} : l \in KeyLists}

\* theme-styles($reference-theme, $theme, $require-all)
ThemeStyles(requireAll) ==
  /\ validation' = [validation EXCEPT
        !.fn = "theme-styles", !.requireAll = requireAll,
        !.result = ValidateThemeTokens(MapKeys(validation.reference),
                                       validation.theme, requireAll)]
  /\ UNCHANGED <<requests, adapterCalls, config, frames, props, out>>

\* theme($reference-theme, $theme)
Theme ==
  /\ validation' = [validation EXCEPT
        !.fn = "theme", !.requireAll = FALSE,
        !.result = ValidateThemeTokens(MapKeys(validation.reference),
                                       validation.theme, FALSE)]
  /\ UNCHANGED <<requests, adapterCalls, config, frames, props, out>>

NoResult == [error |-> "not-called", tokens |-> <<>>]

\* The two maps a validation is called with; no call made yet
ValidateInputs ==
  \E referenceTheme \in ReferenceThemes, theme \in ThemeMaps :
    validation = [fn |-> "none", reference |-> referenceTheme, theme |-> theme,
                  requireAll |-> FALSE, result |-> NoResult]

(***************************************************************************)
(* Custom properties: Sass values                                          *)
(***************************************************************************)
\* Sass values carry their type, as meta.type-of reports it
NullValue == [type |-> "null"]
FalseValue == [type |-> "bool", value |-> FALSE]
TrueValue == [type |-> "bool", value |-> TRUE]
StringValue(text) == [type |-> "string", text |-> text]

\* Sass truthiness: every value but null and false
Truthy(v) == ~(v.type = "null" \/ (v.type = "bool" /\ ~v.value))

\* The text a value contributes when it is written into a CSS function call
Serialize(v) ==
  CASE v.type = "string" -> v.text
    [] v.type = "bool" -> IF v.value THEN <<"true">> ELSE <<"false">>
    [] OTHER -> <<>>

\* var($varname)
VarCall(varname) == StringValue(<<"var(", varname, ")">>)

\* var($varname, $fallback)
VarCallWithFallback(varname, fallback) ==
  StringValue(<<"var(", varname, ", ">> \o Serialize(fallback) \o <<")">>)

(***************************************************************************)
(* Custom properties: configuration                                        *)
(***************************************************************************)
ConfigKeys == {"emit-custom-properties", "emit-fallback-values", "emit-fallback-vars"}

\* $_config
DefaultConfig == [k \in ConfigKeys |-> TrueValue]

\* map.get($_config, $key) used as a condition
ConfigFlag(key) == Truthy(config[key])

\* The keyword arguments a configure() call may be given
KeywordArguments ==
  UNION {[keys -> {TrueValue, FalseValue, NullValue}] : keys \in SUBSET ConfigKeys}

\* The @each that removes the null-valued keyword arguments
RemoveNulls(keywords) ==
  [k \in {key \in DOMAIN keywords : keywords[key] # NullValue} |-> keywords[k]]

\* map.merge($map1, $map2)
MapMerge(map1, map2) ==
  [k \in DOMAIN map1 \cup DOMAIN map2 |->
     IF k \in DOMAIN map2 THEN map2[k] ELSE map1[k]]

NoMap == [k \in {} |-> NullValue]

\* configure($config...) up to and including the start of @content
ConfigureEnter(keywords) ==
  LET cleaned == RemoveNulls(keywords) IN
  /\ Len(frames) < MaxNesting
  /\ IF DOMAIN cleaned = {}
     THEN /\ frames' = Append(frames, [merged |-> FALSE, previous |-> NoMap,
                                       keywords |-> keywords, entry |-> config])
          /\ UNCHANGED config
     ELSE /\ frames' = Append(frames, [merged |-> TRUE, previous |-> config,
                                       keywords |-> keywords, entry |-> config])
          /\ config' = MapMerge(config, cleaned)
  /\ UNCHANGED <<requests, adapterCalls, validation, props, out>>

\* Variant: the configuration is not put back
RestoredConfigKept(frame) == config

\* $_config: $previous !global (only on the branch that saved it)
RestoredConfig(frame) == IF frame.merged THEN frame.previous ELSE config

\* configure($config...) from the end of @content to the end of the mixin
ConfigureExit ==
  /\ frames # <<>>
  /\ config' = RestoredConfig(frames[Len(frames)])
  /\ frames' = SubSeq(frames, 1, Len(frames) - 1)
  /\ UNCHANGED <<requests, adapterCalls, validation, props, out>>

(***************************************************************************)
(* Custom properties: records and their functions                          *)
(***************************************************************************)
VarNames == {"--a", "--b"}
Literals == {StringValue(<<"red">>), StringValue(<<"teal">>)}

\* What a fallback chain may end in: a literal, false or null
FinalFallbacks == Literals \cup {FalseValue, NullValue}

\* create($varname, $fallback), for a name that already starts with '--'
Create(varname, fallback) ==
  [type |-> "map", varname |-> varname, fallback |-> fallback]

\* The record chain names[1] -> names[2] -> ... -> final
RECURSIVE MakeChain(_, _)
MakeChain(names, final) ==
  IF Len(names) = 1 THEN Create(names[1], final)
  ELSE Create(names[1], MakeChain(Tail(names), final))

ChainNames == UNION {[1..n -> VarNames] : n \in 1..MaxDepth}

CustomProps == {MakeChain(names, final) : names \in ChainNames, final \in FinalFallbacks}

\* is-custom-prop($value)
IsCustomProp(value) == value.type = "map" /\ "varname" \in DOMAIN value

\* get-varname($custom-prop)
GetVarname(customProp) == customProp.varname

\* Variant: $shallow is not honoured
RECURSIVE GetFallbackAlwaysDeep(_, _)
GetFallbackAlwaysDeep(customProp, shallow) ==
  LET fallback == customProp.fallback IN
  IF IsCustomProp(fallback) THEN GetFallbackAlwaysDeep(fallback, FALSE) ELSE fallback

\* get-fallback($custom-prop, $shallow)
RECURSIVE GetFallback(_, _)
GetFallback(customProp, shallow) ==
  LET fallback == customProp.fallback IN
  IF IsCustomProp(fallback) /\ ~shallow THEN GetFallback(fallback, FALSE) ELSE fallback

\* Variant: with emit-fallback-vars off the chain's literal is kept as fallback
RECURSIVE CreateVarKeepDeepLiteral(_)
CreateVarKeepDeepLiteral(customProp) ==
  IF ~ConfigFlag("emit-custom-properties") THEN GetFallback(customProp, FALSE)
  ELSE LET varname == GetVarname(customProp)
           fallback == GetFallback(customProp, TRUE)
           deep == GetFallback(customProp, FALSE)
       IN IF IsCustomProp(fallback) /\ ConfigFlag("emit-fallback-vars")
          THEN VarCallWithFallback(varname, CreateVarKeepDeepLiteral(fallback))
          ELSE IF Truthy(deep) /\ ConfigFlag("emit-fallback-values")
          THEN VarCallWithFallback(varname, deep)
          ELSE VarCall(varname)

\* create-var($custom-prop)
RECURSIVE CreateVar(_)
CreateVar(customProp) ==
  IF ~ConfigFlag("emit-custom-properties") THEN GetFallback(customProp, FALSE)
  ELSE LET varname == GetVarname(customProp)
           fallback == GetFallback(customProp, TRUE)
           emitFallbackVars == ConfigFlag("emit-fallback-vars")
           fallbackIsProp == IsCustomProp(fallback)
           emitFallbackValues == ConfigFlag("emit-fallback-values")
       IN IF fallbackIsProp /\ emitFallbackVars
          THEN VarCallWithFallback(varname, CreateVar(fallback))
          ELSE IF Truthy(fallback) /\ ~fallbackIsProp /\ emitFallbackValues
          THEN VarCallWithFallback(varname, fallback)
          ELSE VarCall(varname)

\* are-equal($prop1, $prop2)
AreEqual(prop1, prop2) == CreateVar(prop1) = CreateVar(prop2)

\* get-declaration-value($custom-prop)
GetDeclarationValue(customProp) == CreateVar(customProp)

\* Variant: the configuration is not consulted
GetDeclarationFallbackUnguarded(customProp) == GetFallback(customProp, FALSE)

\* get-declaration-fallback($custom-prop)
GetDeclarationFallback(customProp) ==
  IF ~ConfigFlag("emit-custom-properties") \/ ~ConfigFlag("emit-fallback-values")
  THEN NullValue
  ELSE GetFallback(customProp, FALSE)

\* The arguments of css.declaration, or what happened instead
Emitted(property, value, fallbackValue) ==
  [kind |-> "declaration", property |-> property, value |-> value,
   fallbackValue |-> fallbackValue]
NothingEmitted == [kind |-> "nothing"]
InvalidCustomProperty == [kind |-> "error"]

\* declaration($property, $custom-prop)
DeclarationResult(property, customProp) ==
  IF ~Truthy(property) THEN NothingEmitted
  ELSE IF IsCustomProp(property)
  THEN IF ConfigFlag("emit-custom-properties")
       THEN LET value == GetFallback(property, TRUE) IN
            Emitted(StringValue(<<GetVarname(property)>>),
                    IF IsCustomProp(value) THEN CreateVar(value) ELSE value,
                    NullValue)
       ELSE Emitted(property, NullValue, NullValue)
  ELSE IF ~IsCustomProp(customProp) THEN InvalidCustomProperty
  ELSE Emitted(property, GetDeclarationValue(customProp),
               GetDeclarationFallback(customProp))

PropertyColor == StringValue(<<"color">>)

NoOutput == [fn |-> "none"]

\* A call of get-fallback on the first record
CallGetFallback(shallow) ==
  /\ out' = [fn |-> "get-fallback", shallow |-> shallow,
             result |-> GetFallback(props[1], shallow)]
  /\ UNCHANGED <<requests, adapterCalls, validation, config, frames, props>>

\* A call of create-var on the first record
CallCreateVar ==
  /\ out' = [fn |-> "create-var", result |-> CreateVar(props[1])]
  /\ UNCHANGED <<requests, adapterCalls, validation, config, frames, props>>

\* A call of are-equal on the two records
CallAreEqual ==
  /\ out' = [fn |-> "are-equal", result |-> AreEqual(props[1], props[2])]
  /\ UNCHANGED <<requests, adapterCalls, validation, config, frames, props>>

\* An @include of declaration
CallDeclaration(property, customProp) ==
  /\ out' = [fn |-> "declaration", property |-> property, customProp |-> customProp,
             result |-> DeclarationResult(property, customProp)]
  /\ UNCHANGED <<requests, adapterCalls, validation, config, frames, props>>

(***************************************************************************)
(* Specifications                                                          *)
(***************************************************************************)
IdleCounter == requests = <<>> /\ adapterCalls = <<>>
IdleValidate ==
  validation = [fn |-> "none", reference |-> <<>>, theme |-> <<>>,
                requireAll |-> FALSE, result |-> NoResult]
IdleProps ==
  /\ config = DefaultConfig
  /\ frames = <<>>
  /\ props = <<Create("--a", NullValue), Create("--a", NullValue)>>
  /\ out = NoOutput

\* The module as loaded, and two records to call the functions with, inside one
\* configure() block that names all three switches
PropsInputs ==
  /\ \E keywords \in [ConfigKeys -> {TrueValue, FalseValue}] :
       /\ config = MapMerge(DefaultConfig, keywords)
       /\ frames = <<[merged |-> TRUE, previous |-> DefaultConfig,
                      keywords |-> keywords, entry |-> DefaultConfig]>>
  /\ props \in CustomProps \X CustomProps
  /\ out = NoOutput

NextCounter ==
  \E currentLength \in Lengths, maxLength \in Lengths :
    SetCounterValue(currentLength, maxLength)

NextValidate ==
  \/ \E requireAll \in BOOLEAN : ThemeStyles(requireAll)
  \/ Theme

NextConfig ==
  \/ \E keywords \in KeywordArguments : ConfigureEnter(keywords)
  \/ ConfigureExit

NextProps ==
  \/ \E shallow \in BOOLEAN : CallGetFallback(shallow)
  \/ CallCreateVar
  \/ CallAreEqual
  \/ \E property \in {PropertyColor, NullValue, props[1]},
        customProp \in {props[2], NullValue} :
       CallDeclaration(property, customProp)

\* The foundation after construction: no adapter call has been made
InitCounter == IdleCounter /\ IdleValidate /\ IdleProps
InitValidate == IdleCounter /\ ValidateInputs /\ IdleProps
\* The custom-properties module as loaded: $_config holds its defaults
InitConfig == IdleCounter /\ IdleValidate /\ IdleProps
InitProps == IdleCounter /\ IdleValidate /\ PropsInputs

SpecCounter == InitCounter /\ [][NextCounter]_vars
SpecValidate == InitValidate /\ [][NextValidate]_vars
SpecConfig == InitConfig /\ [][NextConfig]_vars
SpecProps == InitProps /\ [][NextProps]_vars

(***************************************************************************)
(* Properties of the character counter (SpecCounter)                       *)
(***************************************************************************)
Digits == {"0", "1", "2", "3", "4", "5", "6", "7", "8", "9"}
Count(text, ch) == Cardinality({i \in 1..Len(text) : text[i] = ch})
SlashAt(text) == CHOOSE i \in 1..Len(text) : text[i] = "/"
DigitValue(ch) == CHOOSE d \in 0..9 : DigitChar(d) = ch

RECURSIVE ParseNumber(_)
ParseNumber(digits) ==
  IF digits = <<>> THEN 0
  ELSE 10 * ParseNumber(SubSeq(digits, 1, Len(digits) - 1)) + DigitValue(digits[Len(digits)])

\* The two numbers a displayed text shows, read back from its characters
DisplayedCurrent(text) == ParseNumber(SubSeq(text, 1, SlashAt(text) - 2))
DisplayedMax(text) == ParseNumber(SubSeq(text, SlashAt(text) + 2, Len(text)))

ContentOf(i) == adapterCalls[2 * i - 1].args[1]
ForwardedBy(i) == adapterCalls[2 * i].args

\* C1: for every setCounterValue(currentLength, maxLength) call made, the current
\* value shown in the text and forwarded to the adapter is maxLength when
\* currentLength > maxLength and currentLength otherwise, and the maximum shown
\* and forwarded is maxLength itself.
C1_DisplayedValueIsClamped ==
  \A i \in 1..Len(requests) :
    LET currentLength == requests[i][1]
        maxLength == requests[i][2]
        expected == IF currentLength > maxLength THEN maxLength ELSE currentLength
    IN /\ DisplayedCurrent(ContentOf(i)) = expected
       /\ ForwardedBy(i)[1] = expected
       /\ DisplayedMax(ContentOf(i)) = maxLength
       /\ ForwardedBy(i)[2] = maxLength

\* A call with a two-digit currentLength above maxLength has been served
C1_Witness ==
  \E i \in 1..Len(requests) :
    /\ requests[i] = <<10, 9>>
    /\ Len(adapterCalls) >= 2 * i
    /\ ContentOf(i) = <<"9", " ", "/", " ", "9">>
    /\ ForwardedBy(i) = <<9, 9>>

\* The text is digits, one space, a slash, one space, digits
WellFormedContent(text) ==
  /\ Count(text, "/") = 1
  /\ Count(text, " ") = 2
  /\ \A k \in 1..Len(text) : text[k] \in Digits \cup {"/", " "}
  /\ SlashAt(text) > 2
  /\ SlashAt(text) < Len(text) - 1
  /\ text[SlashAt(text) - 1] = " "
  /\ text[SlashAt(text) + 1] = " "
  /\ text[1] # "0" \/ SlashAt(text) = 3
  /\ text[SlashAt(text) + 2] # "0" \/ SlashAt(text) + 2 = Len(text)

\* C2: every setCounterValue call makes exactly two adapter invocations, first
\* setContent with the text "<c> / <m>" and then setCounterValue(c, m) with the
\* same pair, and what a call produces is fixed by its own arguments alone.
C2_TwoAdapterCallsPerUpdate ==
  /\ Len(adapterCalls) = 2 * Len(requests)
  /\ \A i \in 1..Len(requests) :
       /\ adapterCalls[2 * i - 1].fn = "setContent"
       /\ Len(adapterCalls[2 * i - 1].args) = 1
       /\ adapterCalls[2 * i].fn = "setCounterValue"
       /\ Len(ForwardedBy(i)) = 2
       /\ WellFormedContent(ContentOf(i))
       /\ DisplayedCurrent(ContentOf(i)) = ForwardedBy(i)[1]
       /\ DisplayedMax(ContentOf(i)) = ForwardedBy(i)[2]
  /\ \A i, j \in 1..Len(requests) :
       requests[i] = requests[j] =>
         /\ adapterCalls[2 * i - 1] = adapterCalls[2 * j - 1]
         /\ adapterCalls[2 * i] = adapterCalls[2 * j]

\* Two calls with different arguments have been served, the second after a clamp
C2_Witness ==
  /\ Len(requests) = 2
  /\ Len(adapterCalls) = 4
  /\ requests[1][1] > requests[1][2]
  /\ requests[2] # requests[1]
  /\ ContentOf(2) = <<"1", "0", " ", "/", " ", "1", "0">>

(***************************************************************************)
(* Properties of the theme validation (SpecValidate)                       *)
(***************************************************************************)
Validated == validation.fn # "none"
ReferenceKeys == {validation.reference[i].key : i \in 1..Len(validation.reference)}
ThemeKeys == {validation.theme[i].key : i \in 1..Len(validation.theme)}
PositionIn(map, key) == CHOOSE i \in 1..Len(map) : map[i].key = key
EndsWithType(key) ==
  /\ Len(key) >= 5
  /\ [i \in 1..5 |-> key[Len(key) - 5 + i]] = <<"-", "t", "y", "p", "e">>

\* The listed tokens are exactly `keys`, each once, in the order of `map`
ListsExactly(tokens, keys, map) ==
  /\ {tokens[i] : i \in 1..Len(tokens)} = keys
  /\ \A i, j \in 1..Len(tokens) :
       i < j => PositionIn(map, tokens[i]) < PositionIn(map, tokens[j])

Succeeds ==
  /\ validation.result.error = "none"
  /\ validation.result.value = validation.theme

\* The calls C3 speaks of: theme-styles with require-all true, and theme
StrictOrThemeCall ==
  \/ validation.fn = "theme"
  \/ validation.fn = "theme-styles" /\ validation.requireAll

C4_UnsupportedKeysReported ==
  (Validated /\ ThemeKeys \ ReferenceKeys # {}) =>
    /\ validation.result.error = "invalid"
    /\ ListsExactly(validation.result.tokens, ThemeKeys \ ReferenceKeys, validation.theme)

\* theme-styles has rejected a theme that has two unsupported keys around a valid
\* one and also lacks a required token
C4_Witness ==
  /\ validation.fn = "theme-styles"
  /\ validation.requireAll
  /\ Cardinality(ThemeKeys \ ReferenceKeys) = 2
  /\ ThemeKeys \cap ReferenceKeys # {}
  /\ \E key \in ReferenceKeys \ ThemeKeys : ~EndsWithType(key)
  /\ validation.result.error = "invalid"
  /\ Len(validation.result.tokens) = 2

\* Reference keys that are not theme keys and do not end in '-type'
AbsentRequiredKeys == {key \in ReferenceKeys \ ThemeKeys : ~EndsWithType(key)}

\* Reference keys without a '-type' ending that the theme lacks or maps to null
UnsetRequiredKeys ==
  {key \in ReferenceKeys :
     /\ ~EndsWithType(key)
     /\ key \notin ThemeKeys \/ MapGet(validation.theme, key) = Null}

\* C9 as stated: with require-all and no unsupported key, the 'missing' error is
\* raised exactly when a reference key that does not end in '-type' is absent from
\* the theme's keys, and lists exactly those keys; without require-all an
\* incomplete theme passes.
C9_Original_MissingIsKeyDifference ==
  (Validated /\ ThemeKeys \subseteq ReferenceKeys) =>
    IF validation.requireAll
    THEN /\ validation.result.error = "missing" <=> AbsentRequiredKeys # {}
         /\ validation.result.error = "missing" =>
              {validation.result.tokens[i] : i \in 1..Len(validation.result.tokens)}
                = AbsentRequiredKeys
    ELSE Succeeds

\* C9 as amended: with require-all and no unsupported key, the 'missing' error is
\* raised exactly when a reference key that does not end in '-type' is absent from
\* the theme or mapped to null there, and lists exactly those keys in reference
\* order; without require-all (always so for theme) an incomplete theme passes.
C9_MissingIsUnsetKeys ==
  (Validated /\ ThemeKeys \subseteq ReferenceKeys) =>
    IF validation.requireAll
    THEN /\ validation.result.error = "missing" <=> UnsetRequiredKeys # {}
         /\ validation.result.error = "missing" =>
              ListsExactly(validation.result.tokens, UnsetRequiredKeys, validation.reference)
         /\ validation.result.error \in {"missing", "none"}
    ELSE Succeeds

\* theme-styles has reported an absent key and a null-valued key as missing, and
\* no '-type' key, although one is absent
C9_Witness ==
  /\ validation.fn = "theme-styles"
  /\ validation.requireAll
  /\ ThemeKeys \subseteq ReferenceKeys
  /\ TokenLabelType \in ReferenceKeys \ ThemeKeys
  /\ validation.result.error = "missing"
  /\ Len(validation.result.tokens) = 2
  /\ \E i \in 1..2 : validation.result.tokens[i] \in ThemeKeys
  /\ \E i \in 1..2 : validation.result.tokens[i] \notin ThemeKeys

(***************************************************************************)
(* Properties of configure() (SpecConfig)                                  *)
(***************************************************************************)
\* The configuration a block is to run under: the one in force before it, with
\* the block's non-null keyword arguments on top
ConfigInside(before, keywords) ==
  [key \in ConfigKeys |->
     IF key \in DOMAIN keywords /\ keywords[key] # NullValue
     THEN keywords[key] ELSE before[key]]

\* The configuration in force just before the i-th open block began
ConfigBefore(i) ==
  IF i = 1 THEN DefaultConfig
  ELSE ConfigInside(frames[i - 1].entry, frames[i - 1].keywords)

\* C7: inside any nesting of configure() blocks the configuration is the one in
\* force before the innermost open block merged with that block's non-null
\* keyword arguments; each block began under the configuration its enclosing
\* block runs under, which is in force again once the inner block has ended;
\* with no block open the configuration is the initial one.
C7_ConfigureIsScoped ==
  /\ \A i \in 1..Len(frames) : frames[i].entry = ConfigBefore(i)
  /\ config = ConfigBefore(Len(frames) + 1)
  /\ frames = <<>> => \A key \in ConfigKeys : config[key] = TrueValue

\* Two blocks are open; the inner one passed a null and a false argument and the
\* outer one turned a different switch off
C7_Witness ==
  /\ Len(frames) = 2
  /\ frames[1].keywords = [key \in {"emit-fallback-vars"} |-> FalseValue]
  /\ DOMAIN frames[2].keywords = {"emit-fallback-vars", "emit-fallback-values"}
  /\ frames[2].keywords["emit-fallback-vars"] = NullValue
  /\ frames[2].keywords["emit-fallback-values"] = FalseValue
  /\ config["emit-fallback-vars"] = FalseValue
  /\ config["emit-fallback-values"] = FalseValue
  /\ config["emit-custom-properties"] = TrueValue

(***************************************************************************)
(* Properties of the custom-property functions (SpecProps)                 *)
(***************************************************************************)
\* C5: for a chain r1 -> ... -> rn ending in the non-record value v,
\* get-fallback(r1) is v, and get-fallback(r1, shallow: true) is r1's own
\* fallback: the record r2 when n >= 2, v when n = 1.
C5_GetFallbackDeepAndShallow ==
  out.fn = "get-fallback" =>
    \A names \in ChainNames, final \in FinalFallbacks :
      props[1] = MakeChain(names, final) =>
        out.result = IF ~out.shallow \/ Len(names) = 1 THEN final
                     ELSE MakeChain(Tail(names), final)

\* A deep get-fallback on a chain of MaxDepth records has returned its literal
C5_Witness ==
  /\ out.fn = "get-fallback"
  /\ ~out.shallow
  /\ \E names \in ChainNames :
       /\ Len(names) = MaxDepth
       /\ props[1] = MakeChain(names, StringValue(<<"teal">>))
  /\ out.result = StringValue(<<"teal">>)

\* C6: with emit-custom-properties false, declaration(property, record) hands
\* css.declaration the record's deepest non-record fallback as value (null when
\* there is none) and null as fallback-value, whatever the two other switches
\* are; the value holds no var().
C6_DisabledEmitsLiteralFallback ==
  ( /\ out.fn = "declaration"
    /\ ~Truthy(config["emit-custom-properties"])
    /\ out.property = PropertyColor
    /\ out.customProp # NullValue )
  => \A names \in ChainNames, final \in FinalFallbacks :
       out.customProp = MakeChain(names, final) =>
         /\ out.result.kind = "declaration"
         /\ out.result.property = PropertyColor
         /\ out.result.value = final
         /\ out.result.fallbackValue = NullValue
         /\ Count(Serialize(out.result.value), "var(") = 0

\* With custom properties off and both fallback switches on, a declaration of a
\* two-record chain ending in a literal has been emitted
C6_Witness ==
  /\ out.fn = "declaration"
  /\ ~Truthy(config["emit-custom-properties"])
  /\ Truthy(config["emit-fallback-values"])
  /\ Truthy(config["emit-fallback-vars"])
  /\ out.property = PropertyColor
  /\ out.customProp = MakeChain(<<"--a", "--b">>, StringValue(<<"red">>))
  /\ out.result = Emitted(PropertyColor, StringValue(<<"red">>), NullValue)

\* C8: are-equal(p1, p2) is true exactly when the two records are deeply equal,
\* under every configuration.
C8_AreEqualIffDeeplyEqual ==
  out.fn = "are-equal" => (out.result <=> props[1] = props[2])

IsVarName(token) == token \in VarNames
IsLiteralToken(token) == token \in {"red", "teal", "true", "false"}

\* The text is var(<name>) or var(<name>, <fallback>) with as many closing
\* parentheses at its end as it opens var( calls
WellFormedVar(text) ==
  /\ Len(text) >= 3
  /\ text[1] = "var("
  /\ Count(text, "var(") = Len(SelectSeq(text, IsVarName))
  /\ Count(text, ")") = Count(text, "var(")
  /\ \A k \in 1..Len(text) :
       text[k] = ")" => \A later \in k..Len(text) : text[later] = ")"

\* C10 as stated: with emit-custom-properties true the result is var() on the
\* record's own name; nested var() fallbacks are present exactly when
\* emit-fallback-vars is on, and the chain's literal fallback is present exactly
\* when emit-fallback-values is on, whatever emit-fallback-vars is.
C10_Original_SwitchesIndependent ==
  (out.fn = "create-var" /\ Truthy(config["emit-custom-properties"])) =>
    \A names \in ChainNames, final \in FinalFallbacks :
      props[1] = MakeChain(names, final) =>
        /\ out.result.type = "string"
        /\ WellFormedVar(out.result.text)
        /\ SelectSeq(out.result.text, IsVarName) =
             IF Truthy(config["emit-fallback-vars"]) THEN names ELSE <<names[1]>>
        /\ SelectSeq(out.result.text, IsLiteralToken) =
             IF Truthy(config["emit-fallback-values"]) /\ Truthy(final)
             THEN Serialize(final) ELSE <<>>

\* C10 as amended: with emit-custom-properties true the result is var() on the
\* record's own name; nested var() fallbacks are present exactly when
\* emit-fallback-vars is on; the chain's literal fallback is present exactly when
\* emit-fallback-values is on, the literal is neither null nor false, and the
\* record holding it is itself emitted, that is, emit-fallback-vars is on or the
\* chain is a single record.
C10_LiteralNeedsItsRecordEmitted ==
  (out.fn = "create-var" /\ Truthy(config["emit-custom-properties"])) =>
    \A names \in ChainNames, final \in FinalFallbacks :
      props[1] = MakeChain(names, final) =>
        /\ out.result.type = "string"
        /\ WellFormedVar(out.result.text)
        /\ SelectSeq(out.result.text, IsVarName) =
             IF Truthy(config["emit-fallback-vars"]) THEN names ELSE <<names[1]>>
        /\ SelectSeq(out.result.text, IsLiteralToken) =
             IF /\ Truthy(config["emit-fallback-values"])
                /\ Truthy(final)
                /\ Truthy(config["emit-fallback-vars"]) \/ Len(names) = 1
             THEN Serialize(final) ELSE <<>>

\* With emit-fallback-vars off and emit-fallback-values on, create-var of a
\* two-record chain ending in a literal has returned var() without a fallback
C10_Witness ==
  /\ out.fn = "create-var"
  /\ Truthy(config["emit-custom-properties"])
  /\ Truthy(config["emit-fallback-values"])
  /\ ~Truthy(config["emit-fallback-vars"])
  /\ props[1] = MakeChain(<<"--a", "--b">>, StringValue(<<"red">>))
  /\ out.result = StringValue(<<"var(", "--a", ")">>)
====
